---- MODULE Spec2Model ----
(***************************************************************************)
(* Model of the digital-forensics log analyser.                            *)
(*                                                                         *)
(*   analysis.py       FileManager.read_file, RuleManager,                 *)
(*                     ForensicAnalyzer.search_suspicious_patterns,        *)
(*                     ForensicAnalyzer.advanced_statistical_analysis,     *)
(*                     main (the single-file pipeline)                     *)
(*   core/analyzer.py  ForensicAnalyzer.search_patterns / summarize        *)
(*   run_analysis.py   safe_read_file, analyze_file and the                *)
(*                     ThreadPoolExecutor batch loop                       *)
(*                                                                         *)
(* A text is a sequence of tokens.  A token is a word or the newline NL;   *)
(* two words that follow each other are separated by one blank, and NL     *)
(* stands for the line break that replaces that blank.  Regular            *)
(* expressions of the rule catalogs are evaluated on tokens the way        *)
(* re.findall evaluates them on characters: leftmost first, alternatives   *)
(* in the order written, non-overlapping, case-insensitive.                *)
(***************************************************************************)
EXTENDS Integers, Sequences, FiniteSets, TLC

(***************************************************************************)
(* Bounds of the model.                                                    *)
(***************************************************************************)
\* longest text drawn for a text file of the single-file pipeline
MaxLen == 3
\* longest batch (number of paths in all_files)
MaxFiles == 3
\* number of paths of the batch that is larger than the thread pool
PoolFiles == 6

(***************************************************************************)
(* Program constants.                                                      *)
(***************************************************************************)
\* Config.MAX_FILE_SIZE, in MB (100 * 1024 * 1024 bytes)
MAX_FILE_SIZE == 100
\* Config.RISK_THRESHOLDS['HIGH'] and the literal 20 of summarize
HIGH == 20
\* Config.RISK_THRESHOLDS['MEDIUM'] and the literal 10 of summarize
MEDIUM == 10
\* ThreadPoolExecutor(max_workers=4)
max_workers == 4
\* matches[:3]
MaxExamples == 3

NL == "\n"

None == "None"

(***************************************************************************)
(* Helpers on sequences.                                                   *)
(***************************************************************************)
Min(a, b) == IF a <= b THEN a ELSE b

\* s[i:j] of Python with 1-based inclusive bounds i..j
Slice(s, i, j) == [k \in 1..(j - i + 1) |-> s[i + k - 1]]

\* s[:n]
Prefix(s, n) == Slice(s, 1, Min(n, Len(s)))

\* all sequences over S of length at most n
SeqsUpTo(S, n) == UNION {[1..k -> S] : k \in 0..n}

\* the token occurs in the text
Occurs(tok, text) == \E k \in 1..Len(text) : text[k] = tok

\* the words part occur in the text, one after the other
Contains(text, part) ==
  \E k \in 0..(Len(text) - Len(part)) :
    \A q \in 1..Len(part) : text[k + q] = part[q]

(***************************************************************************)
(* re.IGNORECASE: the letters of a token compared without case.            *)
(***************************************************************************)
Lower(tok) ==
  CASE tok = "Malware" -> "malware"
    [] tok = "WARNING" -> "warning"
    [] tok = "Login" -> "login"
    [] OTHER -> tok

(***************************************************************************)
(* Patterns.  Words(alts): an alternation w11\s+w12...|w21\s+...; each     *)
(* alternative is a sequence of words joined by \s+.  Repeat(words, n):    *)
(* one capturing group holding the words and then any characters of the   *)
(* line, repeated n times or more.  Invalid: a pattern re.compile rejects  *)
(* with re.error.                                                          *)
(***************************************************************************)
Words(alts) == [kind |-> "words", alts |-> alts]

Repeat(words, n) == [kind |-> "repeat", words |-> words, atleast |-> n]

Invalid == [kind |-> "invalid"]

\* \s+ between two words: the blank, or the line breaks that replace it
RECURSIVE SkipNL(_, _)
SkipNL(text, pos) ==
  IF pos <= Len(text) /\ text[pos] = NL THEN SkipNL(text, pos + 1) ELSE pos

\* The words w[k..] matched from text[pos]: the position after the match,
\* 0 when there is none.
RECURSIVE MatchWords(_, _, _, _)
MatchWords(text, pos, w, k) ==
  IF k > Len(w) THEN pos
  ELSE LET p == IF k = 1 THEN pos ELSE SkipNL(text, pos)
       IN  IF p <= Len(text) /\ Lower(text[p]) = Lower(w[k])
           THEN MatchWords(text, p + 1, w, k + 1)
           ELSE 0

\* The first alternative, in the order written, that matches at pos.
RECURSIVE MatchAlts(_, _, _, _)
MatchAlts(text, pos, alts, a) ==
  IF a > Len(alts) THEN 0
  ELSE LET e == MatchWords(text, pos, alts[a], 1)
       IN  IF e # 0 THEN e ELSE MatchAlts(text, pos, alts, a + 1)

\* dot-star after position pos: the tokens up to the end of the line
RECURSIVE LineEnd(_, _)
LineEnd(text, pos) ==
  IF pos <= Len(text) /\ text[pos] # NL THEN LineEnd(text, pos + 1) ELSE pos

\* The repeated group from text[pos] with `done` repetitions behind: each
\* repetition is the words, then the rest of the line, greedy, giving back
\* one token at a time while the rest fails.  The result is <<end, start of the last repetition>>, or
\* <<0, 0>>.
RECURSIVE MatchRepeat(_, _, _, _)
RECURSIVE RepeatTail(_, _, _, _, _, _)
MatchRepeat(text, pos, pat, done) ==
  LET e == MatchWords(text, pos, pat.words, 1)
  IN  IF e = 0 THEN <<0, 0>>
      ELSE RepeatTail(text, pos, pat, done, e, LineEnd(text, e))

RepeatTail(text, start, pat, done, e, stop) ==
  LET more == MatchRepeat(text, stop, pat, done + 1)
  IN  IF more[1] # 0 THEN more
      ELSE IF done + 1 >= pat.atleast THEN <<stop, start>>
      ELSE IF stop > e THEN RepeatTail(text, start, pat, done, e, stop - 1)
      ELSE <<0, 0>>

\* One match of pattern pat at pos: <<end, first token of the string
\* findall returns, last token of it>>; end = 0 when there is no match.
MatchAt(text, pos, pat) ==
  IF pat.kind = "words"
  THEN LET e == MatchAlts(text, pos, pat.alts, 1)
       IN  <<e, pos, e - 1>>
  ELSE LET r == MatchRepeat(text, pos, pat, 0)
       IN  <<r[1], r[2], r[1] - 1>>

\* a bug: re.search in place of re.findall, the first match only
RECURSIVE search_first(_, _, _)
search_first(pat, text, pos) ==
  IF pos > Len(text) THEN <<>>
  ELSE LET m == MatchAt(text, pos, pat)
       IN  IF m[1] = 0
           THEN search_first(pat, text, pos + 1)
           ELSE <<Slice(text, m[2], m[3])>>

\* re.findall(pattern, text, flags=re.IGNORECASE): the matched strings,
\* scanning from the left, never overlapping.  Raises re.error for an
\* invalid pattern: the callers test pat.kind first.
RECURSIVE findall(_, _, _)
findall(pat, text, pos) ==
  IF pos > Len(text) THEN <<>>
  ELSE LET m == MatchAt(text, pos, pat)
       IN  IF m[1] = 0
           THEN findall(pat, text, pos + 1)
           ELSE <<Slice(text, m[2], m[3])>> \o findall(pat, text, m[1])

(***************************************************************************)
(* Rule catalogs.                                                          *)
(***************************************************************************)
\* RuleManager._get_default_rules
DefaultRules ==
  [high_risk_patterns |-> <<
     [name |-> "Ransomware", pattern |-> Words(<< <<"ransomware">> >>),
      score |-> 10],
     [name |-> "SQL Injection",
      pattern |-> Words(<< <<"sql", "injection">>, <<"injection">> >>),
      score |-> 10],
     [name |-> "Privilege Escalation",
      pattern |-> Words(<< <<"privilege", "escalation">> >>), score |-> 8] >>,
   medium_risk_patterns |-> <<
     [name |-> "Malware",
      pattern |-> Words(<< <<"malware">>, <<"virus">>, <<"trojan">> >>),
      score |-> 5],
     [name |-> "Unauthorized Access",
      pattern |-> Words(<< <<"unauthorized">>, <<"unauthorized", "access">> >>),
      score |-> 5],
     [name |-> "Failed Login",
      pattern |-> Words(<< <<"failed", "login">>, <<"login", "failed">>,
                           <<"authentication", "failed">> >>),
      score |-> 5],
     [name |-> "Brute Force Pattern",
      pattern |-> Repeat(<<"failed", "login">>, 3), score |-> 6] >>,
   low_risk_patterns |-> <<
     [name |-> "Warning", pattern |-> Words(<< <<"warning">> >>), score |-> 1],
     [name |-> "Timeout",
      pattern |-> Words(<< <<"timeout">>, <<"time", "out">> >>), score |-> 1],
     [name |-> "Scan",
      pattern |-> Words(<< <<"scan">>, <<"scanning">> >>), score |-> 1] >>]

\* A rules.json an analyst wrote: the name Login in two tiers, a rule with no
\* score, a pattern that does not compile, and no medium tier.
CustomRules ==
  [high_risk_patterns |-> <<
     [name |-> "Login", pattern |-> Words(<< <<"login", "failed">> >>),
      score |-> 4],
     [name |-> "Broken", pattern |-> Invalid, score |-> 9] >>,
   low_risk_patterns |-> <<
     [name |-> "Login", pattern |-> Words(<< <<"login">> >>), score |-> 2],
     [name |-> "Noise", pattern |-> Words(<< <<"warning">>, <<"failed">> >>)],
     [name |-> "Malware", pattern |-> Words(<< <<"malware">> >>),
      score |-> 4] >>]

\* DEFAULT_RULES of core/analyzer.py
DEFAULT_RULES ==
  [high |-> <<
     [name |-> "Ransomware", pattern |-> Words(<< <<"ransomware">> >>),
      score |-> 10],
     [name |-> "SQL Injection",
      pattern |-> Words(<< <<"sql", "injection">> >>), score |-> 10] >>,
   medium |-> <<
     [name |-> "Malware", pattern |-> Words(<< <<"malware">> >>), score |-> 5],
     [name |-> "Unauthorized Access",
      pattern |-> Words(<< <<"unauthorized">>, <<"unauthorized", "access">> >>),
      score |-> 5],
     [name |-> "Failed Login",
      pattern |-> Words(<< <<"failed", "login">>, <<"login", "failed">> >>),
      score |-> 5] >>,
   low |-> <<
     [name |-> "Warning", pattern |-> Words(<< <<"warning">> >>), score |-> 1],
     [name |-> "Timeout", pattern |-> Words(<< <<"timeout">> >>),
      score |-> 1] >>]

(***************************************************************************)
(* RuleManager._load_rules.  The rules file is absent, or it cannot be     *)
(* opened, or its content is no JSON, or it holds a JSON document: what    *)
(* json.load returns.  A JSON object is the record of its members; a JSON  *)
(* array at the top is the record [array |-> its items], so that the two   *)
(* can be told apart.                                                      *)
(***************************************************************************)
JsonArray(items) == [array |-> items]

\* isinstance(rules, dict)
IsDict(document) == "array" \notin DOMAIN document

NoRulesFile == [exists |-> FALSE]

UnreadableRulesFile == [exists |-> TRUE, readable |-> FALSE]

GarbageRulesFile == [exists |-> TRUE, readable |-> TRUE, parses |-> FALSE]

JsonRulesFile(document) ==
  [exists |-> TRUE, readable |-> TRUE, parses |-> TRUE,
   document |-> document]

\* a rules.json that is a list of rules, with no tiers
ListRules ==
  JsonArray(<< [name |-> "Ransomware",
                pattern |-> Words(<< <<"ransomware">> >>), score |-> 10] >>)

\* a rules.json with a rule object that has no pattern member
NoPatternRules ==
  [high_risk_patterns |-> <<
     [name |-> "Ransomware", pattern |-> Words(<< <<"ransomware">> >>),
      score |-> 10] >>,
   low_risk_patterns |-> <<
     [name |-> "Warning", score |-> 1] >>]

\* a rules.json with one rule whose pattern does not compile beside two
\* rules whose patterns do
OneBrokenRules ==
  [high_risk_patterns |-> <<
     [name |-> "Ransomware", pattern |-> Words(<< <<"ransomware">> >>),
      score |-> 10],
     [name |-> "Broken", pattern |-> Invalid, score |-> 9] >>,
   low_risk_patterns |-> <<
     [name |-> "Warning", pattern |-> Words(<< <<"warning">> >>),
      score |-> 1] >>]

\* a bug: the loader compiles every pattern and drops the rules whose
\* pattern does not compile
_load_rules_validating(rules_file) ==
  IF ~rules_file.exists THEN DefaultRules
  ELSE IF ~rules_file.readable THEN DefaultRules
  ELSE IF ~rules_file.parses THEN DefaultRules
  ELSE [c \in DOMAIN rules_file.document |->
          SelectSeq(rules_file.document[c],
                    LAMBDA rule : "pattern" \in DOMAIN rule =>
                                    rule.pattern.kind # "invalid")]

\* the value _load_rules returns: the parsed document as it is, whatever its
\* shape; the defaults when the file is absent (else branch), when open()
\* raises (except Exception) or when the content is no JSON (except
\* json.JSONDecodeError).  The count of line 66 is only logged.
_load_rules(rules_file) ==
  IF ~rules_file.exists THEN DefaultRules
  ELSE IF ~rules_file.readable THEN DefaultRules
  ELSE IF ~rules_file.parses THEN DefaultRules
  ELSE rules_file.document

\* RuleManager.get_all_rules
get_all_rules(loaded) == loaded

\* rules.get(category, []) raises AttributeError on a list, and
\* rule['pattern'] raises KeyError on a rule object with no pattern member;
\* search_suspicious_patterns catches re.error only
ScanRaises(rules) ==
  IF ~IsDict(rules) THEN TRUE
  ELSE \E c \in {"high_risk_patterns", "medium_risk_patterns",
                 "low_risk_patterns"} \cap DOMAIN rules :
         \E k \in 1..Len(rules[c]) : "pattern" \notin DOMAIN rules[c][k]

\* a rule set handed to ForensicAnalyzer(rules) of core: the defaults and a
\* rule whose pattern does not compile, ahead of the medium tier
CoreBrokenRules ==
  [DEFAULT_RULES EXCEPT
     !.medium = <<[name |-> "Broken", pattern |-> Invalid, score |-> 9]>> \o @]

\* rules.get(category, [])
RulesGet(rules, category) ==
  IF category \in DOMAIN rules THEN rules[category] ELSE <<>>

\* rule.get('score', 1)
ScoreGet(rule) == IF "score" \in DOMAIN rule THEN rule.score ELSE 1

\* a bug: the handler of re.error reports the content as one match
MatchesBrokenAsMatch(rule, content) ==
  IF rule.pattern.kind = "invalid"
  THEN IF content = <<>> THEN <<>> ELSE <<content>>
  ELSE findall(rule.pattern, content, 1)

\* the try/except re.error around re.findall
Matches(rule, content) ==
  IF rule.pattern.kind = "invalid" THEN <<>>
  ELSE findall(rule.pattern, content, 1)

(***************************************************************************)
(* list.sort(key=lambda x: x['score'] * x['count'], reverse=True): the     *)
(* records by key descending; the sort is stable, also with reverse=True,  *)
(* so records of equal key keep the order they were appended in.           *)
(***************************************************************************)
Key(e) == e.score * e.count

\* a bug: an unstable sort, a record put before the records of its key
RECURSIVE InsertDescUnstable(_, _)
InsertDescUnstable(s, e) ==
  IF s = <<>> THEN <<e>>
  ELSE IF Key(Head(s)) > Key(e)
  THEN <<Head(s)>> \o InsertDescUnstable(Tail(s), e)
  ELSE <<e>> \o s

\* e put into the sorted list s behind every record whose key is not smaller
RECURSIVE InsertDesc(_, _)
InsertDesc(s, e) ==
  IF s = <<>> THEN <<e>>
  ELSE IF Key(Head(s)) >= Key(e) THEN <<Head(s)>> \o InsertDesc(Tail(s), e)
  ELSE <<e>> \o s

RECURSIVE SortFrom(_, _)
SortFrom(sorted, rest) ==
  IF rest = <<>> THEN sorted
  ELSE SortFrom(InsertDesc(sorted, Head(rest)), Tail(rest))

SortDesc(found) == SortFrom(<<>>, found)

(***************************************************************************)
(* analysis.py: ForensicAnalyzer.search_suspicious_patterns                *)
(***************************************************************************)
risk_levels_mapping ==
  << <<"high_risk_patterns", "high">>, <<"medium_risk_patterns", "medium">>,
     <<"low_risk_patterns", "low">> >>

\* a bug: every match kept as an example
FoundItemAllExamples(level, rule, content) ==
  LET matches == Matches(rule, content)
  IN  IF matches = <<>> THEN <<>>
      ELSE << [risk_level |-> level,
               name |-> rule.name,
               pattern |-> rule.pattern,
               count |-> Len(matches),
               score |-> ScoreGet(rule),
               examples |-> matches,
               first_occurrence |-> matches[1]] >>

\* a bug: a record for every rule, matched or not
FoundItemAlways(level, rule, content) ==
  LET matches == Matches(rule, content)
      examples == Prefix(matches, MaxExamples)
  IN  << [risk_level |-> level,
          name |-> rule.name,
          pattern |-> rule.pattern,
          count |-> Len(matches),
          score |-> ScoreGet(rule),
          examples |-> examples,
          first_occurrence |-> IF examples = <<>> THEN <<>>
                               ELSE examples[1]] >>

\* the body of the inner loop: the record of one rule, if it matched
FoundItem(level, rule, content) ==
  LET matches == Matches(rule, content)
      examples == Prefix(matches, MaxExamples)
  IN  IF matches = <<>> THEN <<>>
      ELSE << [risk_level |-> level,
               name |-> rule.name,
               pattern |-> rule.pattern,
               count |-> Len(matches),
               score |-> ScoreGet(rule),
               examples |-> examples,
               first_occurrence |-> examples[1]] >>

RECURSIVE ScanRules(_, _, _)
ScanRules(level, rs, content) ==
  IF rs = <<>> THEN <<>>
  ELSE FoundItem(level, Head(rs), content) \o ScanRules(level, Tail(rs), content)

RECURSIVE ScanLevels(_, _, _)
ScanLevels(rules, levels, content) ==
  IF levels = <<>> THEN <<>>
  ELSE ScanRules(Head(levels)[2], RulesGet(rules, Head(levels)[1]), content)
         \o ScanLevels(rules, Tail(levels), content)

search_suspicious_patterns(rules, content) ==
  SortDesc(ScanLevels(rules, risk_levels_mapping, content))

(***************************************************************************)
(* The risk tier and the recommended action of a total score.              *)
(***************************************************************************)
\* a bug: > where the code has >=
RiskAssessmentStrict(total_risk_score) ==
  IF total_risk_score > HIGH
  THEN [overall_risk |-> "high", action_required |-> "immediate"]
  ELSE IF total_risk_score > MEDIUM
  THEN [overall_risk |-> "medium", action_required |-> "monitor"]
  ELSE [overall_risk |-> "low", action_required |-> "none"]

\* analysis.py: the if/elif/else of advanced_statistical_analysis
RiskAssessment(total_risk_score) ==
  IF total_risk_score >= HIGH
  THEN [overall_risk |-> "high", action_required |-> "immediate"]
  ELSE IF total_risk_score >= MEDIUM
  THEN [overall_risk |-> "medium", action_required |-> "monitor"]
  ELSE [overall_risk |-> "low", action_required |-> "none"]

\* a bug: the scores summed without the counts
RECURSIVE TotalScoreNoCount(_)
TotalScoreNoCount(items) ==
  IF items = <<>> THEN 0
  ELSE Head(items).score + TotalScoreNoCount(Tail(items))

\* sum(item['score'] * item['count'] for item in suspicious_patterns)
RECURSIVE TotalScore(_)
TotalScore(items) ==
  IF items = <<>> THEN 0
  ELSE Head(items).score * Head(items).count + TotalScore(Tail(items))

\* content.splitlines(): the number of lines
RECURSIVE CountNL(_)
CountNL(text) ==
  IF text = <<>> THEN 0
  ELSE (IF Head(text) = NL THEN 1 ELSE 0) + CountNL(Tail(text))

LineCount(text) ==
  CountNL(text) + (IF text # <<>> /\ text[Len(text)] # NL THEN 1 ELSE 0)

\* re.findall(r'(\d{1,2}:\d{2}:\d{2})', ...) inside one token: the pattern
\* has no word boundary, so it finds 23:45:67 inside 123:45:678
TimesIn(tok) ==
  CASE tok = "10:00:01" -> <<"10:00:01">>
    [] tok = "09:00:00" -> <<"09:00:00">>
    [] tok = "123:45:678" -> <<"23:45:67">>
    [] OTHER -> <<>>

\* times = re.findall(..., content): the time strings in document order
RECURSIVE TimesOf(_)
TimesOf(text) ==
  IF text = <<>> THEN <<>> ELSE TimesIn(Head(text)) \o TimesOf(Tail(text))

\* a time string as seconds of the day, for a comparison by value
TimeValue(time) ==
  CASE time = "10:00:01" -> 36001
    [] time = "09:00:00" -> 32400
    [] time = "23:45:67" -> 85567
    [] OTHER -> 0

\* the quotient n / d of Python's true division, and the int 0
Ratio(n, d) == <<n, d>>

\* the text of the report for a time that is not known
Unknown == "unknown"

\* a bug: the first and the last event are the earliest and the latest time
advanced_statistical_analysis_sorted(rules, content) ==
  LET times == TimesOf(content)
      suspicious_patterns == search_suspicious_patterns(rules, content)
      total_risk_score == TotalScore(suspicious_patterns)
      risk == RiskAssessment(total_risk_score)
      earliest == CHOOSE t \in {times[k] : k \in 1..Len(times)} :
                    \A k \in 1..Len(times) : TimeValue(t) <= TimeValue(times[k])
      latest == CHOOSE t \in {times[k] : k \in 1..Len(times)} :
                  \A k \in 1..Len(times) : TimeValue(t) >= TimeValue(times[k])
  IN  [first_event |-> IF times # <<>> THEN earliest ELSE Unknown,
       last_event |-> IF times # <<>> THEN latest ELSE Unknown,
       recorded_times |-> Len(times),
       total_risk_score |-> total_risk_score,
       overall_risk |-> risk.overall_risk,
       action_required |-> risk.action_required,
       threats |-> Len(suspicious_patterns),
       total_events |-> LineCount(content),
       events_per_hour |-> IF times # <<>>
                           THEN Ratio(LineCount(content), 24)
                           ELSE Ratio(0, 1)]

\* analysis.py: ForensicAnalyzer.advanced_statistical_analysis (the time
\* analysis, the risk assessment and the general statistics)
advanced_statistical_analysis(rules, content) ==
  LET times == TimesOf(content)
      suspicious_patterns == search_suspicious_patterns(rules, content)
      total_risk_score == TotalScore(suspicious_patterns)
      risk == RiskAssessment(total_risk_score)
  IN  [first_event |-> IF times # <<>> THEN times[1] ELSE Unknown,
       last_event |-> IF times # <<>> THEN times[Len(times)] ELSE Unknown,
       recorded_times |-> Len(times),
       total_risk_score |-> total_risk_score,
       overall_risk |-> risk.overall_risk,
       action_required |-> risk.action_required,
       threats |-> Len(suspicious_patterns),
       total_events |-> LineCount(content),
       events_per_hour |-> IF times # <<>>
                           THEN Ratio(LineCount(content), 24)
                           ELSE Ratio(0, 1)]

(***************************************************************************)
(* core/analyzer.py: ForensicAnalyzer                                      *)
(***************************************************************************)
\* sum(1 for l in lines if re.search(r'\bword\b', l, re.IGNORECASE))
RECURSIVE LinesWith(_, _, _)
LinesWith(text, word, seen) ==
  IF text = <<>> THEN (IF seen THEN 1 ELSE 0)
  ELSE IF Head(text) = NL
  THEN (IF seen THEN 1 ELSE 0) + LinesWith(Tail(text), word, FALSE)
  ELSE LinesWith(Tail(text), word, seen \/ Lower(Head(text)) = word)

\* analyze_basic (the timestamp, datetime.now(), is left out)
analyze_basic(text) ==
  [total_lines |-> LineCount(text),
   errors |-> LinesWith(text, "error", FALSE),
   warnings |-> LinesWith(text, "warning", FALSE),
   info_events |-> LinesWith(text, "info", FALSE)]

\* the body of the inner loop of search_patterns
FoundEntry(level, rule, text) ==
  LET matches == Matches(rule, text)
  IN  IF matches = <<>> THEN <<>>
      ELSE << [level |-> level,
               name |-> rule.name,
               pattern |-> rule.pattern,
               count |-> Len(matches),
               score |-> ScoreGet(rule)] >>

RECURSIVE ScanEntries(_, _, _)
ScanEntries(level, rs, text) ==
  IF rs = <<>> THEN <<>>
  ELSE FoundEntry(level, Head(rs), text) \o ScanEntries(level, Tail(rs), text)

RECURSIVE ScanTiers(_, _, _)
ScanTiers(rules, levels, text) ==
  IF levels = <<>> THEN <<>>
  ELSE ScanEntries(Head(levels), RulesGet(rules, Head(levels)), text)
         \o ScanTiers(rules, Tail(levels), text)

search_patterns(rules, text) ==
  SortDesc(ScanTiers(rules, <<"high", "medium", "low">>, text))

\* sum(p["score"] * p["count"] for p in patterns)
RECURSIVE total_score(_)
total_score(patterns) ==
  IF patterns = <<>> THEN 0
  ELSE Head(patterns).score * Head(patterns).count + total_score(Tail(patterns))

\* the if/elif/else of summarize
Overall(score) ==
  IF score >= HIGH
  THEN [overall_level |-> "HIGH",
        recommended_action |-> "Immediate response required"]
  ELSE IF score >= MEDIUM
  THEN [overall_level |-> "MEDIUM",
        recommended_action |-> "Continuous monitoring suggested"]
  ELSE [overall_level |-> "LOW",
        recommended_action |-> "Normal - no urgent action"]

summarize(basic, patterns) ==
  LET score == total_score(patterns)
  IN  [basic |-> basic,
       patterns |-> patterns,
       total_score |-> score,
       overall_level |-> Overall(score).overall_level,
       recommended_action |-> Overall(score).recommended_action]

(***************************************************************************)
(* Files.  A file is [exists, readable, size, stem, ext, body]: size in MB *)
(* (rounded up), readable = open() succeeds, and body the content:         *)
(*   [kind |-> "text", text]          any bytes, decoded                   *)
(*   [kind |-> "csv", header, rows]   a header line and rows of its width  *)
(*   [kind |-> "json", islist, items] a JSON array of items, or one value  *)
(*   [kind |-> "zip", entries]        a ZIP container of entries           *)
(*                                    [stem, ext, readable, body]          *)
(* A .csv file holds a csv body; a .json or .zip file may hold anything.   *)
(***************************************************************************)
Absent == <<>>

Some(v) == <<v>>

\* str.lower() of an extension
LowerExt(ext) ==
  CASE ext = ".TXT" -> ".txt"
    [] ext = ".EXE" -> ".exe"
    [] ext = ".JSON" -> ".json"
    [] ext = ".ZIP" -> ".zip"
    [] OTHER -> ext

\* sep.join(parts)
RECURSIVE Join(_, _)
Join(parts, sep) ==
  IF parts = <<>> THEN <<>>
  ELSE IF Len(parts) = 1 THEN parts[1]
  ELSE parts[1] \o sep \o Join(Tail(parts), sep)

\* json.dumps(value, ensure_ascii=False): the value between its brackets
dumps(value) == <<"{">> \o value \o <<"}">>

\* json.dumps of the dict csv.DictReader makes of one row
RECURSIVE RowDict(_, _)
RowDict(header, row) ==
  IF header = <<>> THEN <<>>
  ELSE <<Head(header), Head(row)>> \o RowDict(Tail(header), Tail(row))

CsvText(body) ==
  Join([r \in 1..Len(body.rows) |-> dumps(RowDict(body.header, body.rows[r]))],
       <<NL>>)

\* the list / not-a-list branches after json.load
JsonText(body) ==
  IF body.islist
  THEN Join([k \in 1..Len(body.items) |-> dumps(body.items[k])], <<NL>>)
  ELSE dumps(body.items[1])

\* info.filename inside a marker line: the stem and the extension are one
\* word to the eye, two to a regular expression (the dot is a boundary)
FileName(entry) == <<entry.stem, entry.ext>>

\* one iteration of the loop over z.infolist(): what it appends to contents
EntryContent(entry) ==
  LET e == LowerExt(entry.ext)
      name == FileName(entry)
  IN  IF e \in {".txt", ".log"}
      THEN IF entry.readable /\ entry.body.kind = "text"
           THEN <<"---", "FILE:">> \o name \o <<"---", NL>> \o entry.body.text
           ELSE <<"---", "FILE:">> \o name \o <<"(unreadable)", "---">>
      ELSE IF e = ".csv"
      THEN IF entry.readable /\ entry.body.kind = "csv"
           THEN CsvText(entry.body)
           ELSE <<"---", "FILE:">> \o name \o <<"(csv", "parse", "error)", "---">>
      ELSE IF e = ".json"
      THEN IF entry.readable /\ entry.body.kind = "json"
           THEN JsonText(entry.body)
           ELSE <<"---", "FILE:">> \o name \o <<"(json", "parse", "error)", "---">>
      ELSE <<"---", "FILE:">> \o name
             \o <<"(skipped", "-", "unsupported)", "---">>

\* a bug: "" where the code returns None for the text
ResultEmptyText(text, meta, error) ==
  [text |-> IF text = Absent THEN Some(<<>>) ELSE text, meta |-> meta,
   error |-> error]

\* the dict read_file returns
Result(text, meta, error) == [text |-> text, meta |-> meta, error |-> error]

\* str(e) of the exception the generic handler of read_file catches
Failed(e) == Result(Absent, Absent, e)

\* the branch ext in ('.txt', '.log')
ReadText(f, meta) ==
  IF ~f.readable THEN Failed("PermissionError")
  ELSE Result(Some(f.body.text), Some(meta), None)

\* the branch ext == '.csv'
ReadCsv(f, meta) ==
  IF ~f.readable THEN Failed("PermissionError")
  ELSE Result(Some(CsvText(f.body)), Some(meta), None)

\* a bug: a document that does not parse is taken as empty
ReadJsonBestEffort(f, meta) ==
  IF ~f.readable THEN Failed("PermissionError")
  ELSE IF f.body.kind # "json" THEN Result(Some(<<>>), Some(meta), None)
  ELSE Result(Some(JsonText(f.body)), Some(meta), None)

\* the branch ext == '.json': json.load raises JSONDecodeError on content
\* that is no JSON
ReadJson(f, meta) ==
  IF ~f.readable THEN Failed("PermissionError")
  ELSE IF f.body.kind # "json" THEN Failed("JSONDecodeError")
  ELSE Result(Some(JsonText(f.body)), Some(meta), None)

\* a bug: an entry that cannot be read or parsed fails the whole archive
ReadZipAborting(f, meta) ==
  IF ~f.readable THEN Failed("PermissionError")
  ELSE IF f.body.kind # "zip" THEN Failed("BadZipFile")
  ELSE IF \E k \in 1..Len(f.body.entries) :
            Contains(EntryContent(f.body.entries[k]), <<"error)">>)
            \/ Contains(EntryContent(f.body.entries[k]), <<"(unreadable)">>)
  THEN Failed("entry")
  ELSE LET n == Len(f.body.entries)
           contents == [k \in 1..n |-> EntryContent(f.body.entries[k])]
           names == [k \in 1..n |-> FileName(f.body.entries[k])]
       IN  Result(Some(Join(contents, <<NL, NL>>)),
                  Some([meta EXCEPT !.files_in_archive = Some(names)]),
                  None)

\* the branch ext == '.zip': zipfile.ZipFile raises BadZipFile on content
\* that is no ZIP container
ReadZip(f, meta) ==
  IF ~f.readable THEN Failed("PermissionError")
  ELSE IF f.body.kind # "zip" THEN Failed("BadZipFile")
  ELSE LET n == Len(f.body.entries)
           contents == [k \in 1..n |-> EntryContent(f.body.entries[k])]
           names == [k \in 1..n |-> FileName(f.body.entries[k])]
       IN  Result(Some(Join(contents, <<NL, NL>>)),
                  Some([meta EXCEPT !.files_in_archive = Some(names)]),
                  None)

\* a bug: the extension is looked at before the size
read_file_dispatch_first(f) ==
  IF ~f.exists THEN Result(Absent, Absent, "not found")
  ELSE
    LET ext == LowerExt(f.ext)
        meta == [size |-> f.size, ext |-> ext, files_in_archive |-> Absent]
    IN  IF ext \notin {".txt", ".log", ".csv", ".json", ".zip"}
        THEN Result(Absent, Some(meta), "unsupported")
        ELSE IF f.size > MAX_FILE_SIZE
        THEN Result(Absent, Absent, "too large")
        ELSE IF ext \in {".txt", ".log"} THEN ReadText(f, meta)
        ELSE IF ext = ".csv" THEN ReadCsv(f, meta)
        ELSE IF ext = ".json" THEN ReadJson(f, meta)
        ELSE ReadZip(f, meta)

\* FileManager.read_file.  The handler of UnicodeDecodeError is not modelled:
\* every open() of the function decodes with errors='replace', which never
\* raises it.
read_file(f) ==
  IF ~f.exists THEN Result(Absent, Absent, "not found")
  ELSE IF f.size > MAX_FILE_SIZE THEN Result(Absent, Absent, "too large")
  ELSE
    LET ext == LowerExt(f.ext)
        meta == [size |-> f.size, ext |-> ext, files_in_archive |-> Absent]
    IN  IF ext \in {".txt", ".log"} THEN ReadText(f, meta)
        ELSE IF ext = ".csv" THEN ReadCsv(f, meta)
        ELSE IF ext = ".json" THEN ReadJson(f, meta)
        ELSE IF ext = ".zip" THEN ReadZip(f, meta)
        ELSE Result(Absent, Some(meta), "unsupported")

(***************************************************************************)
(* run_analysis.py: safe_read_file and analyze_file.  A path is            *)
(* [stem, ext]: ext is the end of the path string from its last dot.  The  *)
(* disk maps a path to [gone, text]: gone = the file was removed or made   *)
(* unreadable after os.listdir saw it, so that open() raises.              *)
(***************************************************************************)
Blocklist == {".exe", ".bat", ".cmd", ".js", ".vbs"}

\* a bug: the suffix compared without regard to the letter case
IsBlockedAnyCase(path) == LowerExt(path.ext) \in Blocklist

\* file_path.endswith(('.exe', '.bat', '.cmd', '.js', '.vbs'))
IsBlocked(path) == path.ext \in Blocklist

\* a bug: the blocklist test left out
safe_read_file_unguarded(path, dsk) ==
  IF dsk[path].gone THEN [opened |-> TRUE, raised |-> TRUE, text |-> <<>>]
  ELSE [opened |-> TRUE, raised |-> FALSE, text |-> dsk[path].text]

\* safe_read_file: [opened, raised, text]
safe_read_file(path, dsk) ==
  IF IsBlocked(path) THEN [opened |-> FALSE, raised |-> FALSE, text |-> <<>>]
  ELSE IF dsk[path].gone THEN [opened |-> TRUE, raised |-> TRUE, text |-> <<>>]
  ELSE [opened |-> TRUE, raised |-> FALSE, text |-> dsk[path].text]

\* os.path.join("results", f"forensic_report_{base_name}.txt")
ReportPath(path) ==
  <<"results", "forensic_report_", path.stem, path.ext, ".txt">>

\* a bug: the test of the empty content left out
analyze_file_unguarded(path, dsk, rs) ==
  LET rd == safe_read_file(path, dsk)
      text_content == rd.text
  IN  IF rd.raised
      THEN [opened |-> rd.opened, raised |-> TRUE, scanned |-> FALSE,
            report |-> Absent, value |-> Absent]
      ELSE LET basic_summary == analyze_basic(text_content)
               patterns_summary == search_patterns(rs, text_content)
               summary == summarize(basic_summary, patterns_summary)
           IN  [opened |-> rd.opened, raised |-> FALSE, scanned |-> TRUE,
                report |-> Some(ReportPath(path)), value |-> Some(summary)]

\* analyze_file: [opened, raised, scanned, report, value]; value is Absent
\* for the None it returns, Some(summary) otherwise; report is Absent, or
\* Some(the report file it wrote)
analyze_file(path, dsk, rs) ==
  LET rd == safe_read_file(path, dsk)
      text_content == rd.text
  IN  IF rd.raised
      THEN [opened |-> rd.opened, raised |-> TRUE, scanned |-> FALSE,
            report |-> Absent, value |-> Absent]
      ELSE IF text_content = <<>>
      THEN [opened |-> rd.opened, raised |-> FALSE, scanned |-> FALSE,
            report |-> Absent, value |-> Absent]
      ELSE LET basic_summary == analyze_basic(text_content)
               patterns_summary == search_patterns(rs, text_content)
               summary == summarize(basic_summary, patterns_summary)
           IN  [opened |-> rd.opened, raised |-> FALSE, scanned |-> TRUE,
                report |-> Some(ReportPath(path)), value |-> Some(summary)]

\* open(report_path, 'w') and the writes: one more writing of the file
Write(files, report) ==
  IF report = Absent THEN files
  ELSE IF report[1] \in DOMAIN files
  THEN [files EXCEPT ![report[1]] = @ + 1]
  ELSE files @@ (report[1] :> 1)

(***************************************************************************)
(* Inputs.                                                                 *)
(***************************************************************************)
Vocabulary ==
  {"ransomware", "injection", "Malware", "login", "failed", "warning", NL}

SampleText == <<"login", "failed", NL, "warning">>

\* longer texts of interest: a rule matched more than three times, in
\* either letter case
\* three lines "login failed", each ended by its line break
LoginCorpus ==
  <<"login", "failed", NL, "login", "failed", NL, "login", "failed", NL>>

\* a log whose times are not in ascending order, the last one inside a
\* longer run of digits
TimedLog ==
  <<"10:00:01", "login", "failed", NL, "09:00:00", "warning", NL,
    "123:45:678", "ransomware">>

ScenarioTexts ==
  {SampleText, LoginCorpus, TimedLog,
   <<"login", "failed", NL, "WARNING", "warning", "warning", "warning">>}

Texts == SeqsUpTo(Vocabulary, MaxLen) \cup ScenarioTexts


TextBody(t) == [kind |-> "text", text |-> t]

CsvBody == [kind |-> "csv", header |-> <<"event", "user">>,
            rows |-> << <<"Malware", "root">>, <<"login", "guest">> >>]

JsonList == [kind |-> "json", islist |-> TRUE,
             items |-> << <<"ransomware">>, <<"warning", "injection">> >>]

JsonObject == [kind |-> "json", islist |-> FALSE,
               items |-> << <<"msg", "login", "failed">> >>]

Entry(stem, ext, readable, body) ==
  [stem |-> stem, ext |-> ext, readable |-> readable, body |-> body]

ZipBody ==
  [kind |-> "zip",
   entries |-> << Entry("notes", ".txt", TRUE, TextBody(<<"ransomware">>)),
                  Entry("Malware", ".exe", TRUE, TextBody(<<"injection">>)),
                  Entry("bad", ".json", TRUE, TextBody(<<"warning">>)),
                  Entry("locked", ".log", FALSE, TextBody(<<"failed">>)),
                  Entry("rows", ".csv", TRUE, CsvBody) >>]

\* an archive of one .txt entry and one .exe entry
PairZipBody ==
  [kind |-> "zip",
   entries |-> << Entry("notes", ".txt", TRUE, TextBody(<<"warning">>)),
                  Entry("Malware", ".exe", TRUE, TextBody(<<"injection">>)) >>]

\* the bodies a file of the extension may hold
BodiesFor(ext) ==
  CASE LowerExt(ext) = ".csv" -> {CsvBody}
    [] LowerExt(ext) = ".json" -> {JsonList, JsonObject, TextBody(SampleText)}
    [] LowerExt(ext) = ".zip" -> {ZipBody, PairZipBody, TextBody(SampleText)}
    [] OTHER -> {TextBody(<<>>), TextBody(SampleText)}

Extensions ==
  {".txt", ".log", ".TXT", ".csv", ".json", ".zip", ".exe", ".pdf", ""}

Sizes == {0, 1, MAX_FILE_SIZE, MAX_FILE_SIZE + 1}

File(exists, readable, size, stem, ext, body) ==
  [exists |-> exists, readable |-> readable, size |-> size, stem |-> stem,
   ext |-> ext, body |-> body]

\* the files main may find at file_path
Files ==
  {File(TRUE, TRUE, 1, "sample_log", ".txt", TextBody(t)) : t \in Texts}
  \cup {File(FALSE, FALSE, 0, "sample_log", ".txt", TextBody(<<>>))}
  \cup UNION {{File(TRUE, r, sz, "evidence", ext, b) :
                 r \in BOOLEAN, sz \in Sizes, b \in BodiesFor(ext)} :
              ext \in Extensions}

Catalogs == {DefaultRules, CustomRules}

\* what main may find at rules.json
RulesFiles ==
  {NoRulesFile, UnreadableRulesFile, GarbageRulesFile,
   JsonRulesFile(CustomRules), JsonRulesFile(OneBrokenRules),
   JsonRulesFile(ListRules), JsonRulesFile(NoPatternRules)}

\* the files every rules file is run with; the other files are run with no
\* rules file and with the analyst's
ProbeFiles ==
  {File(TRUE, TRUE, 1, "sample_log", ".txt", TextBody(t)) :
     t \in ScenarioTexts \cup {<<>>, <<"ransomware", "Malware">>}}

FilesFor(rules_json) ==
  IF rules_json \in {NoRulesFile, JsonRulesFile(CustomRules)}
  THEN Files ELSE ProbeFiles

Path(stem, ext) == [stem |-> stem, ext |-> ext]

\* what os.listdir("data") may list
Paths ==
  {Path("sample", ".log"), Path("empty", ".txt"), Path("gone", ".log"),
   Path("tool", ".exe"), Path("tool", ".EXE"), Path("run", ".js"),
   Path("start", ".bat"), Path("job", ".cmd"), Path("macro", ".vbs")}

Disk(sample) ==
  [p \in Paths |->
     CASE p = Path("sample", ".log") -> [gone |-> FALSE, text |-> sample]
       [] p = Path("empty", ".txt") -> [gone |-> FALSE, text |-> <<>>]
       [] p = Path("gone", ".log") -> [gone |-> TRUE, text |-> <<>>]
       [] p = Path("tool", ".EXE") ->
            [gone |-> FALSE, text |-> <<"Malware", "ransomware">>]
       [] OTHER -> [gone |-> FALSE, text |-> <<"ransomware", "injection">>]]

\* a directory of more files than the pool has threads, in the order
\* os.listdir gives them, with and without the file whose open() raises
PathOrder ==
  <<Path("gone", ".log"), Path("sample", ".log"), Path("empty", ".txt"),
    Path("tool", ".exe"), Path("run", ".js"), Path("start", ".bat"),
    Path("job", ".cmd"), Path("macro", ".vbs"), Path("tool", ".EXE")>>

PoolListings ==
  {Prefix(PathOrder, PoolFiles),
   Prefix(SelectSeq(PathOrder, LAMBDA p : p # Path("gone", ".log")),
          PoolFiles)}

\* the listings: sequences of distinct paths, one blocklisted path at most
Listings ==
  {fs \in SeqsUpTo(Paths, MaxFiles) :
     \A i, j \in 1..Len(fs) :
        i # j => fs[i] # fs[j] /\ ~(IsBlocked(fs[i]) /\ IsBlocked(fs[j]))}

(***************************************************************************)
(* State.                                                                  *)
(***************************************************************************)
VARIABLES
  program,          \* "main" (analysis.py) or "batch" (run_analysis.py)
  \* analysis.main
  file,             \* the file at file_path
  rules_file,       \* the file at rules.json
  rules,            \* the rule catalog the analyzer holds
  pc,               \* the statement main is at
  read_result,      \* Absent, or Some(the dict read_file returned)
  basic_analysis,   \* Absent, or Some(...)
  suspicious_items, \* Absent, or Some(the list of records)
  advanced_stats,   \* Absent, or Some(...)
  saved_report,     \* main wrote its report
  \* run_analysis.py
  all_files,        \* the listing
  disk,             \* the files behind the listing
  future,           \* per path: pending, running, finished, raised, cancelled
  outcome,          \* per path: what analyze_file returned
  opened,           \* paths open() was called on
  scanned,          \* paths whose content reached the analyzer
  reports,          \* report file |-> the times it was written
  collected,        \* the values list() has taken from the iterator
  cancel_at,        \* the future the iterator's finally clause is to cancel
  results,          \* Absent, or Some(the list assigned to results)
  main_pc           \* collect, cancelling, shutdown, done, crashed, idle

mainVars == <<file, pc, read_result, basic_analysis, suspicious_items,
              advanced_stats, saved_report>>

batchVars == <<all_files, disk, future, outcome, opened, scanned, reports,
               collected, cancel_at, results, main_pc>>

vars == <<program, rules_file, rules, mainVars, batchVars>>

\* the catalog of an analyzer that is not constructed yet
NotLoaded == [loaded |-> FALSE]

N == Len(all_files)

InitMain ==
  /\ program = "main"
  /\ rules_file \in RulesFiles
  /\ file \in FilesFor(rules_file)
  /\ rules = NotLoaded
  /\ pc = "load"
  /\ read_result = Absent
  /\ basic_analysis = Absent
  /\ suspicious_items = Absent
  /\ advanced_stats = Absent
  /\ saved_report = FALSE
  /\ all_files = <<>>
  /\ disk = Disk(SampleText)
  /\ future = <<>>
  /\ outcome = <<>>
  /\ opened = {}
  /\ scanned = {}
  /\ reports = <<>>
  /\ collected = <<>>
  /\ cancel_at = 0
  /\ results = Absent
  /\ main_pc = "idle"

\* executor.map has submitted one future per path
InitBatch(listing) ==
  /\ program = "batch"
  /\ IF listing = <<Path("sample", ".log")>>
     THEN \E t \in Texts : disk = Disk(t)
     ELSE disk = Disk(SampleText)
  /\ all_files = listing
  /\ rules_file = NoRulesFile
  /\ rules = DEFAULT_RULES
  /\ future = [i \in 1..Len(all_files) |-> "pending"]
  /\ outcome = [i \in 1..Len(all_files) |-> Absent]
  /\ opened = {}
  /\ scanned = {}
  /\ reports = <<>>
  /\ collected = <<>>
  /\ cancel_at = 0
  /\ results = Absent
  /\ main_pc = "collect"
  /\ file = File(FALSE, FALSE, 0, "sample_log", ".txt", TextBody(<<>>))
  /\ pc = "idle"
  /\ read_result = Absent
  /\ basic_analysis = Absent
  /\ suspicious_items = Absent
  /\ advanced_stats = Absent
  /\ saved_report = FALSE

Init == InitMain \/ \E listing \in Listings : InitBatch(listing)

(***************************************************************************)
(* analysis.main: the single-file pipeline, one action per call.           *)
(***************************************************************************)
\* ForensicAnalyzer.analyze_log_basic (analysis_timestamp left out)
analyze_log_basic(content) ==
  [total_lines |-> LineCount(content),
   errors |-> LinesWith(content, "error", FALSE),
   warnings |-> LinesWith(content, "warning", FALSE),
   info_events |-> LinesWith(content, "info", FALSE)]

\* analyzer = ForensicAnalyzer(): RuleManager.__init__ loads the catalog
LoadRules ==
  /\ program = "main"
  /\ pc = "load"
  /\ rules' = _load_rules(rules_file)
  /\ pc' = "read"
  /\ UNCHANGED <<program, rules_file, file, read_result, basic_analysis,
                 suspicious_items, advanced_stats, saved_report, batchVars>>

\* content = read_result["text"]
content == read_result[1].text[1]

\* read_result = analyzer.file_manager.read_file(file_path), and the return
\* when read_result["error"] is set
ReadFile ==
  /\ program = "main"
  /\ pc = "read"
  /\ read_result' = Some(read_file(file))
  /\ pc' = IF read_file(file).error # None THEN "done" ELSE "basic"
  /\ UNCHANGED <<program, rules_file, rules, file, basic_analysis,
                 suspicious_items, advanced_stats, saved_report, batchVars>>

AnalyzeBasic ==
  /\ program = "main"
  /\ pc = "basic"
  /\ basic_analysis' = Some(analyze_log_basic(content))
  /\ pc' = "search"
  /\ UNCHANGED <<program, rules_file, rules, file, read_result,
                 suspicious_items, advanced_stats, saved_report, batchVars>>

\* a bug: the scan takes the rules that matched out of the catalog
SearchSuspiciousPatternsConsuming ==
  /\ program = "main"
  /\ pc = "search"
  /\ IF ScanRaises(get_all_rules(rules))
     THEN /\ pc' = "failed"
          /\ UNCHANGED <<suspicious_items, rules>>
     ELSE LET found == search_suspicious_patterns(get_all_rules(rules),
                                                  content)
              hit == {found[k].name : k \in 1..Len(found)}
          IN  /\ suspicious_items' = Some(found)
              /\ rules' = [c \in DOMAIN rules |->
                             SelectSeq(rules[c],
                                       LAMBDA rule : rule.name \notin hit)]
              /\ pc' = "stats"
  /\ UNCHANGED <<program, rules_file, file, read_result, basic_analysis,
                 advanced_stats, saved_report, batchVars>>

SearchSuspiciousPatterns ==
  /\ program = "main"
  /\ pc = "search"
  /\ IF ScanRaises(get_all_rules(rules))
     THEN /\ pc' = "failed"
          /\ UNCHANGED suspicious_items
     ELSE /\ suspicious_items' =
               Some(search_suspicious_patterns(get_all_rules(rules), content))
          /\ pc' = "stats"
  /\ UNCHANGED <<program, rules_file, rules, file, read_result,
                 basic_analysis, advanced_stats, saved_report, batchVars>>

AdvancedStatisticalAnalysis ==
  /\ program = "main"
  /\ pc = "stats"
  /\ advanced_stats' = Some(advanced_statistical_analysis(rules, content))
  /\ pc' = "report"
  /\ UNCHANGED <<program, rules_file, rules, file, read_result,
                 basic_analysis, suspicious_items, saved_report, batchVars>>

\* generate_text_report and save_report
SaveReport ==
  /\ program = "main"
  /\ pc = "report"
  /\ saved_report' = TRUE
  /\ pc' = "done"
  /\ UNCHANGED <<program, rules_file, rules, file, read_result,
                 basic_analysis, suspicious_items, advanced_stats,
                 batchVars>>

(***************************************************************************)
(* run_analysis.py: results = list(executor.map(analyze_file, all_files))  *)
(* inside `with ThreadPoolExecutor(max_workers=4)`.  Executor.map submits  *)
(* every call and returns an iterator that yields the futures' results in  *)
(* input order; when a result raises, the iterator's finally clause        *)
(* cancels the futures not yet taken, last first, the exception leaves     *)
(* list(), the with block waits for the running calls (shutdown(wait=True))*)
(* and the exception leaves the script.                                    *)
(***************************************************************************)
Running == {i \in 1..N : future[i] = "running"}

\* a bug: a thread per call, with no limit on the threads
StartUnbounded(i) ==
  /\ program = "batch"
  /\ future[i] = "pending"
  /\ \A j \in 1..(i - 1) : future[j] # "pending"
  /\ future' = [future EXCEPT ![i] = "running"]
  /\ UNCHANGED <<program, rules_file, rules, mainVars, all_files, disk,
                 outcome, opened, scanned, reports, collected, cancel_at,
                 results, main_pc>>

\* a worker thread takes the oldest queued call
Start(i) ==
  /\ program = "batch"
  /\ future[i] = "pending"
  /\ \A j \in 1..(i - 1) : future[j] # "pending"
  /\ Cardinality(Running) < max_workers
  /\ future' = [future EXCEPT ![i] = "running"]
  /\ UNCHANGED <<program, rules_file, rules, mainVars, all_files, disk,
                 outcome, opened, scanned, reports, collected, cancel_at,
                 results, main_pc>>

\* a bug: a scan takes the rules that matched out of the shared rule set
AnalyzeFileMutating(i) ==
  /\ program = "batch"
  /\ future[i] = "running"
  /\ LET path == all_files[i]
         r == analyze_file(path, disk, rules)
         hit == IF r.value = Absent THEN {}
                ELSE {r.value[1].patterns[k].name :
                        k \in 1..Len(r.value[1].patterns)}
     IN  /\ future' = [future EXCEPT ![i] = IF r.raised THEN "raised"
                                                         ELSE "finished"]
         /\ outcome' = [outcome EXCEPT ![i] = r.value]
         /\ opened' = IF r.opened THEN opened \cup {path} ELSE opened
         /\ scanned' = IF r.scanned THEN scanned \cup {path} ELSE scanned
         /\ reports' = Write(reports, r.report)
         /\ rules' = [c \in DOMAIN rules |->
                        SelectSeq(rules[c], LAMBDA rule : rule.name \notin hit)]
  /\ UNCHANGED <<program, rules_file, mainVars, all_files, disk, collected,
                 cancel_at, results, main_pc>>

\* the worker runs analyze_file(all_files[i]) to its return or its raise
AnalyzeFile(i) ==
  /\ program = "batch"
  /\ future[i] = "running"
  /\ LET path == all_files[i]
         r == analyze_file(path, disk, rules)
     IN  /\ future' = [future EXCEPT ![i] = IF r.raised THEN "raised"
                                                         ELSE "finished"]
         /\ outcome' = [outcome EXCEPT ![i] = r.value]
         /\ opened' = IF r.opened THEN opened \cup {path} ELSE opened
         /\ scanned' = IF r.scanned THEN scanned \cup {path} ELSE scanned
         /\ reports' = Write(reports, r.report)
  /\ UNCHANGED <<program, rules_file, rules, mainVars, all_files, disk,
                 collected, cancel_at, results, main_pc>>

\* a bug: the next result is taken from any call that has finished
CollectAnyFinished ==
  /\ program = "batch"
  /\ main_pc = "collect"
  /\ Len(collected) < N
  /\ \E j \in 1..N :
       /\ future[j] = "finished"
       /\ collected' = Append(collected, outcome[j])
  /\ UNCHANGED <<program, rules_file, rules, mainVars, all_files, disk,
                 future, outcome, opened, scanned, reports, cancel_at,
                 results, main_pc>>

\* list() takes the next result from the iterator
Collect ==
  /\ program = "batch"
  /\ main_pc = "collect"
  /\ Len(collected) < N
  /\ future[Len(collected) + 1] = "finished"
  /\ collected' = Append(collected, outcome[Len(collected) + 1])
  /\ UNCHANGED <<program, rules_file, rules, mainVars, all_files, disk,
                 future, outcome, opened, scanned, reports, cancel_at,
                 results, main_pc>>

\* the next result raises: the iterator's finally clause starts
CollectRaises ==
  /\ program = "batch"
  /\ main_pc = "collect"
  /\ Len(collected) < N
  /\ future[Len(collected) + 1] = "raised"
  /\ main_pc' = "cancelling"
  /\ cancel_at' = N
  /\ UNCHANGED <<program, rules_file, rules, mainVars, all_files, disk,
                 future, outcome, opened, scanned, reports, collected,
                 results>>

\* for future in fs: future.cancel()
Cancel ==
  /\ program = "batch"
  /\ main_pc = "cancelling"
  /\ IF cancel_at > Len(collected) + 1
     THEN /\ future' = [future EXCEPT ![cancel_at] =
                          IF @ = "pending" THEN "cancelled" ELSE @]
          /\ cancel_at' = cancel_at - 1
          /\ UNCHANGED main_pc
     ELSE /\ main_pc' = "shutdown"
          /\ UNCHANGED <<future, cancel_at>>
  /\ UNCHANGED <<program, rules_file, rules, mainVars, all_files, disk,
                 outcome, opened, scanned, reports, collected, results>>

\* the with block is left by the exception once no call is running
Crash ==
  /\ program = "batch"
  /\ main_pc = "shutdown"
  /\ Running = {}
  /\ main_pc' = "crashed"
  /\ UNCHANGED <<program, rules_file, rules, mainVars, all_files, disk,
                 future, outcome, opened, scanned, reports, collected,
                 cancel_at, results>>

\* list() is complete: results is assigned and the with block is left
Complete ==
  /\ program = "batch"
  /\ main_pc = "collect"
  /\ Len(collected) = N
  /\ results' = Some(collected)
  /\ main_pc' = "done"
  /\ UNCHANGED <<program, rules_file, rules, mainVars, all_files, disk,
                 future, outcome, opened, scanned, reports, collected,
                 cancel_at>>

Next ==
  \/ LoadRules
  \/ ReadFile
  \/ AnalyzeBasic
  \/ SearchSuspiciousPatterns
  \/ AdvancedStatisticalAnalysis
  \/ SaveReport
  \/ \E i \in 1..N : Start(i)
  \/ \E i \in 1..N : AnalyzeFile(i)
  \/ Collect
  \/ CollectRaises
  \/ Cancel
  \/ Crash
  \/ Complete

Spec == Init /\ [][Next]_vars

(***************************************************************************)
(* The batch run over a directory of more files than the pool has worker   *)
(* threads.                                                                *)
(***************************************************************************)
InitPool == \E listing \in PoolListings : InitBatch(listing)

NextPool ==
  \/ \E i \in 1..N : Start(i)
  \/ \E i \in 1..N : AnalyzeFile(i)
  \/ Collect
  \/ CollectRaises
  \/ Cancel
  \/ Crash
  \/ Complete

SpecPool == InitPool /\ [][NextPool]_vars

(***************************************************************************)
(* Properties of the batch run.                                            *)
(***************************************************************************)
BatchEnded == program = "batch" /\ main_pc \in {"done", "crashed"}

\* C1: in the batch run a failure of one file's pipeline becomes a result
\* record of that file; it cancels no sibling that has not started, it keeps
\* no sibling's result from being returned, and no exception leaves the run:
\* of N paths every one has a result in the end.
C1_FailureIsolated ==
  program = "batch" =>
    /\ main_pc # "crashed"
    /\ \A i \in 1..N : future[i] # "cancelled"
    /\ main_pc = "done" => Len(results[1]) = N

\* C2: once the batch run is over, the number of result records is the
\* number of input paths, whatever the paths are.
C2_OneResultPerPath ==
  BatchEnded => results # Absent /\ Len(results[1]) = N

\* C3: a path of the batch whose extension is on the blocklist is never
\* opened and its content never reaches the matcher or the scorer.
C3_BlockedNeverRead ==
  \A i \in 1..N :
    IsBlocked(all_files[i]) =>
      all_files[i] \notin opened /\ all_files[i] \notin scanned

\* a batch that is over and held a blocklisted path beside a path that was
\* read and analysed
C3_Witness ==
  /\ BatchEnded
  /\ \E i, j \in 1..N :
       /\ IsBlocked(all_files[i]) /\ future[i] = "finished"
       /\ all_files[j] \in scanned

\* C4: the result of a blocklisted path is a record that is present and
\* differs from the result of every path that is not blocklisted (a file
\* that was analysed, an empty file).
C4_BlockedRecordDistinct ==
  \A i, j \in 1..N :
    (/\ future[i] = "finished" /\ future[j] = "finished"
     /\ IsBlocked(all_files[i]) /\ ~IsBlocked(all_files[j])) =>
      outcome[i] # Absent /\ outcome[i] # outcome[j]

(***************************************************************************)
(* Properties of the matcher and the scorers.  A property is stated on the *)
(* values the two programs hold: suspicious_items and advanced_stats of    *)
(* analysis.main, and the summaries the batch run returned.                *)
(***************************************************************************)
\* the summaries analyze_file returned so far, with the text they are of
Summaries ==
  {[text |-> disk[all_files[i]].text, summary |-> outcome[i][1]] :
     i \in {k \in 1..N : future[k] = "finished" /\ outcome[k] # Absent}}

\* the sum of f over the indices in S
RECURSIVE SumOver(_, _)
SumOver(S, f) ==
  IF S = {} THEN 0
  ELSE LET k == CHOOSE k \in S : TRUE IN f[k] + SumOver(S \ {k}, f)

\* the sum over the records of score x count
RecordSum(items) ==
  SumOver(DOMAIN items, [k \in DOMAIN items |-> items[k].score * items[k].count])

\* C5: the aggregate score a scorer reports is the sum over the returned
\* match records of score x count, 0 when there is no record; for
\* advanced_statistical_analysis and for summarize of core.
C5_AggregateScoreIsSum ==
  /\ advanced_stats # Absent =>
       advanced_stats[1].total_risk_score = RecordSum(suspicious_items[1])
  /\ \A s \in Summaries : s.summary.total_score = RecordSum(s.summary.patterns)

\* a score made of two records, one of them counted more than once
C5_Witness ==
  /\ advanced_stats # Absent
  /\ Len(suspicious_items[1]) >= 2
  /\ \E k \in DOMAIN suspicious_items[1] : suspicious_items[1][k].count >= 2
  /\ advanced_stats[1].total_risk_score > 0

TierOf(score) ==
  IF score >= 20 THEN "high" ELSE IF score >= 10 THEN "medium" ELSE "low"

TierRank(tier) ==
  CASE tier \in {"high", "HIGH"} -> 3
    [] tier \in {"medium", "MEDIUM"} -> 2
    [] OTHER -> 1

\* C6: the risk tier is High exactly when the score is 20 or more, Medium
\* exactly when it is 10 or more and below 20, Low otherwise; a higher score
\* never has a lower tier; a tier has one recommended action; 25 is High.
C6_RiskTier ==
  /\ advanced_stats # Absent =>
       LET st == advanced_stats[1]
       IN  /\ st.overall_risk = TierOf(st.total_risk_score)
           /\ st.total_risk_score = 25 => st.overall_risk = "high"
           /\ st.action_required =
                (CASE st.overall_risk = "high" -> "immediate"
                   [] st.overall_risk = "medium" -> "monitor"
                   [] OTHER -> "none")
  /\ \A s \in Summaries :
       /\ TierRank(s.summary.overall_level) =
            TierRank(TierOf(s.summary.total_score))
       /\ s.summary.overall_level \in {"HIGH", "MEDIUM", "LOW"}
       /\ s.summary.recommended_action =
            (CASE s.summary.overall_level = "HIGH" ->
                    "Immediate response required"
               [] s.summary.overall_level = "MEDIUM" ->
                    "Continuous monitoring suggested"
               [] OTHER -> "Normal - no urgent action")
  /\ \A s, t \in Summaries :
       s.summary.total_score <= t.summary.total_score =>
         TierRank(s.summary.overall_level) <= TierRank(t.summary.overall_level)

\* the score 25 was assessed
C6_Witness ==
  /\ advanced_stats # Absent
  /\ advanced_stats[1].total_risk_score = 25
  /\ advanced_stats[1].overall_risk = "high"

\* the rules of a catalog in catalog order, each with the label of its tier
RECURSIVE Flatten(_, _)
Flatten(rs, levels) ==
  IF levels = <<>> THEN <<>>
  ELSE LET tier == RulesGet(rs, Head(levels)[1])
       IN  [k \in 1..Len(tier) |-> [level |-> Head(levels)[2], rule |-> tier[k]]]
             \o Flatten(rs, Tail(levels))

MainLevels == << <<"high_risk_patterns", "high">>,
                 <<"medium_risk_patterns", "medium">>,
                 <<"low_risk_patterns", "low">> >>

CoreLevels == << <<"high", "high">>, <<"medium", "medium">>, <<"low", "low">> >>

LevelOf(rec) ==
  IF "risk_level" \in DOMAIN rec THEN rec.risk_level ELSE rec.level

\* the record rec is a record of the catalog rule fr
IsOf(rec, fr) ==
  /\ LevelOf(rec) = fr.level
  /\ rec.name = fr.rule.name
  /\ rec.pattern = fr.rule.pattern

\* the catalog positions of the rules that match the text
Matched(flat, text) ==
  {q \in DOMAIN flat :
     flat[q].rule.pattern.kind # "invalid"
       /\ findall(flat[q].rule.pattern, text, 1) # <<>>}

PosOf(rec, flat) == CHOOSE q \in DOMAIN flat : IsOf(rec, flat[q])

\* items holds the records of the rules that matched, each once, by
\* score x count descending and in catalog order among equals
Ranked(items, flat, text) ==
  LET matched == Matched(flat, text)
      pos == [k \in DOMAIN items |-> PosOf(items[k], flat)]
  IN  /\ \A k \in DOMAIN items :
           \E q \in matched : IsOf(items[k], flat[q])
      /\ {pos[k] : k \in DOMAIN items} = matched
      /\ Len(items) = Cardinality(matched)
      /\ \A k \in 1..(Len(items) - 1) :
           LET a == items[k].score * items[k].count
               b == items[k + 1].score * items[k + 1].count
           IN  /\ a >= b
               /\ a = b => pos[k] < pos[k + 1]

\* C7: the records the matcher returns are a permutation of the records of
\* the rules that matched, by score x count descending; records of equal
\* score x count are in catalog order.
C7_SortedStable ==
  /\ suspicious_items # Absent =>
       Ranked(suspicious_items[1], Flatten(rules, MainLevels), content)
  /\ \A s \in Summaries :
       Ranked(s.summary.patterns, Flatten(DEFAULT_RULES, CoreLevels), s.text)

\* two records of equal score x count, and a record the sort moved ahead of
\* a record of an earlier rule
C7_Witness ==
  /\ suspicious_items # Absent
  /\ LET items == suspicious_items[1]
         flat == Flatten(rules, MainLevels)
     IN  /\ \E k \in 1..(Len(items) - 1) :
               items[k].score * items[k].count
                 = items[k + 1].score * items[k + 1].count
         /\ \E k \in 1..(Len(items) - 1) :
               PosOf(items[k], flat) > PosOf(items[k + 1], flat)

\* C8: the matcher emits one record for each catalog rule that matched and
\* none for a rule that did not; a record has count >= 1, at most 3
\* examples and the score of its rule; two rules of one name in different
\* tiers that both match have a record each.
C8_OneRecordPerMatchedRule ==
  suspicious_items # Absent =>
    LET items == suspicious_items[1]
        flat == Flatten(rules, MainLevels)
        matched == Matched(flat, content)
    IN  /\ \A q \in DOMAIN flat :
             Cardinality({k \in DOMAIN items : IsOf(items[k], flat[q])})
               = IF q \in matched THEN 1 ELSE 0
        /\ \A k \in DOMAIN items :
             /\ items[k].count >= 1
             /\ Len(items[k].examples) <= 3
             /\ Len(items[k].examples) >= 1
             /\ \E q \in DOMAIN flat :
                  /\ IsOf(items[k], flat[q])
                  /\ items[k].count = Len(findall(flat[q].rule.pattern, content, 1))
                  /\ items[k].score =
                       (IF "score" \in DOMAIN flat[q].rule
                        THEN flat[q].rule.score ELSE 1)

\* two records of one name, and a record of more matches than examples
C8_Witness ==
  /\ suspicious_items # Absent
  /\ LET items == suspicious_items[1]
     IN  /\ \E j, k \in DOMAIN items : j # k /\ items[j].name = items[k].name
         /\ \E k \in DOMAIN items : items[k].count > 3

(***************************************************************************)
(* Properties of FileManager.read_file and of main's use of it.            *)
(***************************************************************************)
\* C9: in every outcome of read_file the error is set if and only if the
\* text is absent, and with the error set main computes no matches and no
\* stats.
C9_ErrorExcludesData ==
  read_result # Absent =>
    /\ read_result[1].error # None <=> read_result[1].text = Absent
    /\ read_result[1].error # None =>
         /\ basic_analysis = Absent
         /\ suspicious_items = Absent
         /\ advanced_stats = Absent
         /\ ~saved_report

\* main returned on an error of a file that exists and has a supported
\* extension
C9_Witness ==
  /\ pc = "done"
  /\ read_result # Absent
  /\ read_result[1].error \notin {None, "not found", "unsupported"}

Supported == {".txt", ".log", ".csv", ".json", ".zip"}

\* the three conditions: no such path, over the cap, unsupported extension
Rejected(f) ==
  \/ ~f.exists
  \/ f.size > 100
  \/ LowerExt(f.ext) \notin Supported

\* the file itself cannot be opened or is not of its format
Unreadable(f) ==
  \/ ~f.readable
  \/ LowerExt(f.ext) = ".json" /\ f.body.kind # "json"
  \/ LowerExt(f.ext) = ".zip" /\ f.body.kind # "zip"

IsCatalog(document) ==
  IF ~IsDict(document) THEN FALSE
  ELSE \A c \in DOMAIN document :
         \A k \in 1..Len(document[c]) : "pattern" \in DOMAIN document[c][k]

\* the rules file is absent or malformed
Malformed(rules_json) ==
  IF ~rules_json.exists THEN TRUE
  ELSE IF ~rules_json.readable THEN TRUE
  ELSE IF ~rules_json.parses THEN TRUE
  ELSE ~IsCatalog(rules_json.document)

\* C11: loading the rule catalog never raises, and a rules file that is
\* absent or malformed (valid JSON of another shape included: a list at the
\* top, a rule object with no pattern) leaves the analyzer with the built-in
\* defaults, so that the scan that follows does not raise.
C11_MalformedRulesGiveDefaults ==
  (program = "main" /\ pc # "load" /\ Malformed(rules_file)) =>
    rules = DefaultRules /\ pc # "failed"

\* the rules of a catalog, over all its tiers
RuleCount(catalog) ==
  SumOver(DOMAIN catalog, [c \in DOMAIN catalog |-> Len(catalog[c])])

\* the catalog holds a rule whose pattern does not compile
HoldsBroken(catalog) ==
  \E c \in DOMAIN catalog :
    \E k \in 1..Len(catalog[c]) : catalog[c][k].pattern.kind = "invalid"

BrokenLoaded ==
  program = "main" /\ rules_file = JsonRulesFile(OneBrokenRules) /\ pc # "load"

WithoutBroken(catalog) ==
  [c \in DOMAIN catalog |->
     SelectSeq(catalog[c], LAMBDA rule : rule.pattern.kind # "invalid")]

\* C13: a rule whose pattern raises a regex error during the scan is
\* skipped, and only that rule: the scan goes on in catalog order and
\* returns the records it returns when the failing rule is not in the
\* catalog; for search_suspicious_patterns and for search_patterns of core.
C13_BrokenRuleSkipped ==
  /\ (program = "main" /\ suspicious_items # Absent /\ HoldsBroken(rules)) =>
       suspicious_items[1] =
         search_suspicious_patterns(WithoutBroken(rules), content)
  /\ WithoutBroken(CoreBrokenRules) = rules =>
       \A s \in Summaries :
          search_patterns(CoreBrokenRules, s.text) = s.summary.patterns

\* a scan with a broken rule in the catalog that returned a record of a rule
\* standing before it and a record of a rule standing behind it
C13_Witness ==
  /\ program = "main" /\ pc = "done"
  /\ rules = CustomRules
  /\ suspicious_items # Absent
  /\ \E i, j \in 1..Len(suspicious_items[1]) :
       /\ suspicious_items[1][i].risk_level = "high"
       /\ suspicious_items[1][j].risk_level = "low"

(***************************************************************************)
(* Properties of the ZIP branch of read_file.                              *)
(***************************************************************************)
\* main has read a ZIP container
ZipRead ==
  /\ program = "main" /\ read_result # Absent
  /\ LowerExt(file.ext) = ".zip" /\ file.body.kind = "zip"
  /\ file.exists /\ file.readable /\ file.size <= MAX_FILE_SIZE

\* the entry is of no supported type
Skipped(entry) == LowerExt(entry.ext) \notin {".txt", ".log", ".csv", ".json"}

\* the file without its entries of no supported type
WithoutSkipped(f) ==
  [f EXCEPT !.body.entries = SelectSeq(@, LAMBDA entry : ~Skipped(entry))]

\* C14: of a ZIP holding a .txt entry and an .exe entry, the text of the
\* .txt entry is in the corpus; of the .exe entry neither the content nor
\* the name is in the text the rules are matched against, so the scan finds
\* what it finds in the archive without the .exe entry.
C14_SkippedEntryNotInText ==
  ZipRead =>
    /\ read_result[1].error = None
    /\ \A k \in 1..Len(file.body.entries) :
         LET entry == file.body.entries[k]
         IN  /\ (LowerExt(entry.ext) = ".txt" /\ entry.readable) =>
                  Contains(content, entry.body.text)
             /\ Skipped(entry) =>
                  /\ ~Contains(content, entry.body.text)
                  /\ ~Occurs(entry.stem, content)
    /\ suspicious_items # Absent =>
         suspicious_items[1] =
           search_suspicious_patterns(rules,
                                      read_file(WithoutSkipped(file)).text[1])

\* the segments of a text: its parts between blank lines
RECURSIVE Split(_, _)
Split(text, from) ==
  IF \E k \in from..(Len(text) - 1) : text[k] = NL /\ text[k + 1] = NL
  THEN LET k == CHOOSE k \in from..(Len(text) - 1) :
                  /\ text[k] = NL /\ text[k + 1] = NL
                  /\ \A q \in from..(k - 1) : ~(text[q] = NL /\ text[q + 1] = NL)
       IN  <<Slice(text, from, k - 1)>> \o Split(text, k + 2)
  ELSE <<Slice(text, from, Len(text))>>

\* the entry can be read and holds what its extension says
Sound(entry) ==
  /\ entry.readable
  /\ entry.body.kind =
       (CASE LowerExt(entry.ext) = ".csv" -> "csv"
          [] LowerExt(entry.ext) = ".json" -> "json"
          [] OTHER -> "text")

\* the segment is a marker line of the entry that says `what`
IsMarker(segment, entry, what) ==
  /\ Len(segment) >= 5
  /\ Slice(segment, 1, 4) = <<"---", "FILE:", entry.stem, entry.ext>>
  /\ Contains(segment, what)
  /\ segment[Len(segment)] = "---"
  /\ ~Occurs(NL, segment)

\* the segment is what the archive loop is to add for the entry
SegmentOf(segment, entry) ==
  IF Skipped(entry) THEN IsMarker(segment, entry, <<"(skipped">>)
  ELSE IF ~Sound(entry)
  THEN \/ IsMarker(segment, entry, <<"(unreadable)">>)
       \/ IsMarker(segment, entry, <<"parse", "error)">>)
  ELSE IF LowerExt(entry.ext) \in {".txt", ".log"}
  THEN segment = <<"---", "FILE:", entry.stem, entry.ext, "---", NL>>
                   \o entry.body.text
  ELSE IF LowerExt(entry.ext) = ".csv"
  THEN /\ ~Occurs("FILE:", segment)
       /\ \A k \in 1..Len(entry.body.header) :
            Occurs(entry.body.header[k], segment)
  ELSE /\ ~Occurs("FILE:", segment)
       /\ \A k \in 1..Len(entry.body.items) :
            Contains(segment, entry.body.items[k])

\* C15: of a ZIP container that opens, an entry that cannot be read, decoded
\* or parsed and an entry of unsupported type never end the ingest: the
\* corpus holds one segment per entry in archive order (the content, an
\* unreadable or parse-error marker, a skipped marker), the entry-name list
\* holds every entry in archive order, and no error is returned.
C15_EntryFailureIsolated ==
  ZipRead =>
    /\ read_result[1].error = None
    /\ LET entries == file.body.entries
           segments == Split(content, 1)
           names == read_result[1].meta[1].files_in_archive
       IN  /\ Len(segments) = Len(entries)
           /\ \A k \in 1..Len(entries) : SegmentOf(segments[k], entries[k])
           /\ names # Absent /\ Len(names[1]) = Len(entries)
           /\ \A k \in 1..Len(entries) :
                names[1][k] = <<entries[k].stem, entries[k].ext>>

\* an archive was read whose entries fail or are skipped ahead of an entry
\* that is read, and the scan found the words of that last entry
C15_Witness ==
  /\ ZipRead /\ pc = "done" /\ saved_report
  /\ \E i, j, k \in 1..Len(file.body.entries) :
       /\ i < k /\ j < k
       /\ Skipped(file.body.entries[i])
       /\ ~Skipped(file.body.entries[j]) /\ ~Sound(file.body.entries[j])
       /\ Sound(file.body.entries[k])
       /\ LowerExt(file.body.entries[k].ext) = ".csv"
  /\ \E r \in 1..Len(suspicious_items[1]) :
       suspicious_items[1][r].name = "Malware"
       /\ suspicious_items[1][r].count = 2

(***************************************************************************)
(* Properties of the size cap of read_file.                                *)
(***************************************************************************)
\* C16: read_file rejects every existing file larger than 100 MB with the
\* size error, whatever its extension, supported or not, and before any
\* content is read; a file that does not exist gets the not-found error; a
\* file of exactly 100 MB is not rejected for its size.
C16_SizeCapUniform ==
  (program = "main" /\ read_result # Absent) =>
    /\ ~file.exists => read_result[1].error = "not found"
    /\ (file.exists /\ file.size > MAX_FILE_SIZE) =>
         read_result[1] = Result(Absent, Absent, "too large")
    /\ (file.exists /\ file.size <= MAX_FILE_SIZE) =>
         read_result[1].error # "too large"
    /\ (/\ file.exists /\ file.size = MAX_FILE_SIZE /\ file.readable
        /\ LowerExt(file.ext) \in {".txt", ".log"}) =>
         read_result[1].error = None

\* a file of unsupported extension that cannot be opened, one unit over the
\* cap, was rejected for its size
C16_Witness ==
  /\ program = "main" /\ read_result # Absent
  /\ file.exists /\ ~file.readable /\ file.size = MAX_FILE_SIZE + 1
  /\ LowerExt(file.ext) \notin Supported
  /\ read_result[1].error = "too large"
  /\ pc = "done"

(***************************************************************************)
(* Properties of the thread pool of the batch run.                         *)
(***************************************************************************)
\* a step starts no pipeline a second time: a call that has left the queue
\* never returns to it, and a call starts running from the queue only
NoRestart ==
  \A i \in 1..N :
    /\ future[i] # "pending" => future'[i] # "pending"
    /\ (future'[i] = "running" /\ future[i] # "running") =>
         future[i] = "pending"
    /\ future[i] \in {"finished", "raised", "cancelled"} =>
         future'[i] = future[i]

\* C17: within one batch run the pipeline of a file is started once at
\* most, also after it failed, and at every moment at most max_workers
\* pipelines are in progress.
C17_StartedOnceAtMostFour ==
  /\ [](program = "batch" => Cardinality(Running) <= max_workers)
  /\ [][NoRestart]_vars

\* every worker thread is busy, a call waits in the queue, and a call that
\* failed is not run again
C17_Witness ==
  /\ program = "batch" /\ N > max_workers
  /\ Cardinality(Running) = max_workers
  /\ \E i \in 1..N : future[i] = "pending"
  /\ \E i \in 1..N : future[i] = "raised"

(***************************************************************************)
(* Properties of the shared rule set.                                      *)
(***************************************************************************)
\* what the pipeline of the i-th path returns when it runs alone, with the
\* rule set as it was loaded
Alone(i) == analyze_file(all_files[i], disk, DEFAULT_RULES).value

\* C18: the rule set is not changed once it is loaded, by no step of any
\* file pipeline, and so the result of a file of the batch is the result its
\* pipeline gives alone, whatever ran before it or beside it.
C18_RulesNeverMutated ==
  /\ [][rules # NotLoaded => rules' = rules]_vars
  /\ [](program = "batch" =>
          \A i \in 1..N : future[i] = "finished" => outcome[i] = Alone(i))

\* a batch that ran to its end with two files whose scans both found
\* rules of the rule set they share
C18_Witness ==
  /\ program = "batch" /\ main_pc = "done"
  /\ rules = DEFAULT_RULES
  /\ \E i, j \in 1..N :
       /\ i # j
       /\ outcome[i] # Absent /\ outcome[j] # Absent
       /\ outcome[i][1].patterns # <<>> /\ outcome[j][1].patterns # <<>>

(***************************************************************************)
(* Properties of a repeated analysis.  main analyses its corpus twice with *)
(* one catalog: search_suspicious_patterns is called by main and once more *)
(* inside advanced_statistical_analysis.                                   *)
(***************************************************************************)
\* a step of an analysis leaves the catalog and the corpus as they are
AnalysisReadsOnly ==
  (program = "main" /\ pc \in {"basic", "search", "stats", "report"}) =>
    rules' = rules /\ read_result' = read_result

EmptyTextFile(f) ==
  /\ f.exists /\ f.readable /\ f.size <= MAX_FILE_SIZE
  /\ LowerExt(f.ext) \in {".txt", ".log"}
  /\ f.body = TextBody(<<>>)

C21_ThreeFailedLogins ==
  /\ (/\ program = "main" /\ rules = DefaultRules
      /\ suspicious_items # Absent /\ content = LoginCorpus) =>
       /\ Len(suspicious_items[1]) = 1
       /\ suspicious_items[1][1].name = "Failed Login"
       /\ suspicious_items[1][1].count = 3
       /\ suspicious_items[1][1].score = 5
       /\ suspicious_items[1][1].examples =
            << <<"login", "failed">>, <<"login", "failed">>,
               <<"login", "failed">> >>
       /\ advanced_stats # Absent =>
            /\ advanced_stats[1].total_risk_score = 15
            /\ advanced_stats[1].threats = 1
  /\ \A s \in Summaries :
       s.text = LoginCorpus =>
         /\ Len(s.summary.patterns) = 1
         /\ s.summary.patterns[1].name = "Failed Login"
         /\ s.summary.patterns[1].count = 3
         /\ s.summary.total_score = 15

\* the pipeline of main ran over the three lines with the default rules
C21_Witness ==
  /\ program = "main" /\ pc = "done" /\ saved_report
  /\ rules = DefaultRules /\ content = LoginCorpus
  /\ suspicious_items[1][1].count = 3
  /\ advanced_stats[1].total_risk_score = 15

(***************************************************************************)
(* Properties of the time analysis.                                        *)
(***************************************************************************)
\* the places of the text that hold a time
TimePlaces(text) == {k \in 1..Len(text) : TimesIn(text[k]) # <<>>}

\* the least and the greatest of a set of numbers that is not empty
Least(S) == CHOOSE k \in S : \A q \in S : k <= q

Greatest(S) == CHOOSE k \in S : \A q \in S : k >= q

\* C22: the first and the last event of the statistics are the first and
\* the last time of the text in document order, not the earliest and the
\* latest; the events per hour are 0 when the text holds no time and the
\* number of lines divided by 24 otherwise.
C22_TimesInDocumentOrder ==
  (program = "main" /\ advanced_stats # Absent) =>
    LET places == TimePlaces(content)
        stats == advanced_stats[1]
    IN  IF places = {}
        THEN /\ stats.first_event = Unknown /\ stats.last_event = Unknown
             /\ stats.events_per_hour = Ratio(0, 1)
        ELSE /\ stats.first_event = TimesIn(content[Least(places)])[1]
             /\ LET last == TimesIn(content[Greatest(places)])
                IN  stats.last_event = last[Len(last)]
             /\ stats.events_per_hour = Ratio(stats.total_events, 24)
             /\ stats.total_events = LineCount(content)

\* statistics of a log whose first time is later in the day than a time
\* that follows it
C22_Witness ==
  /\ program = "main" /\ pc = "done" /\ advanced_stats # Absent
  /\ content = TimedLog
  /\ advanced_stats[1].first_event = "10:00:01"
  /\ advanced_stats[1].last_event = "23:45:67"
  /\ advanced_stats[1].events_per_hour = Ratio(3, 24)

(***************************************************************************)
(* Properties of analyze_file.                                             *)
(***************************************************************************)
\* the calls of the batch that returned
Returned == {i \in 1..N : future[i] = "finished"}

\* C23: in the batch run analyze_file returns None exactly when the path is
\* blocklisted or the content of the file is empty, and then it runs no
\* matcher and no scorer and writes no report; every other call that does
\* not raise returns a summary and writes one report file, once, named
\* after the base name of the file.
C23_NoneIffBlockedOrEmpty ==
  program = "batch" =>
    /\ \A i \in Returned :
         LET path == all_files[i]
         IN  /\ outcome[i] = Absent <=>
                  (IsBlocked(path) \/ disk[path].text = <<>>)
             /\ outcome[i] = Absent =>
                  /\ path \notin scanned
                  /\ ReportPath(path) \notin DOMAIN reports
             /\ outcome[i] # Absent =>
                  /\ path \in scanned
                  /\ ReportPath(path) \in DOMAIN reports
                  /\ reports[ReportPath(path)] = 1
    /\ \A file_name \in DOMAIN reports :
         \E i \in Returned :
            outcome[i] # Absent /\ file_name = ReportPath(all_files[i])

\* a batch that is over and held a blocklisted path, an empty file and a
\* file that was analysed
C23_Witness ==
  /\ program = "batch" /\ main_pc = "done"
  /\ \E i, j, k \in 1..N :
       /\ IsBlocked(all_files[i]) /\ outcome[i] = Absent
       /\ ~IsBlocked(all_files[j]) /\ disk[all_files[j]].text = <<>>
       /\ outcome[j] = Absent
       /\ outcome[k] # Absent /\ reports[ReportPath(all_files[k])] = 1

(***************************************************************************)
(* Properties of the blocklist test.                                       *)
(***************************************************************************)
\* the calls of the batch that ran to their return or their raise
Ran == {i \in 1..N : future[i] \in {"finished", "raised"}}

\* C24: safe_read_file blocks a path if and only if the path ends with one
\* of the five suffixes as they are written, in lower case: a path that
\* differs from a blocked one in the letter case of its extension only
\* (x.EXE beside x.exe) is not blocked, it is opened and read.
C24_BlocklistCaseSensitive ==
  program = "batch" =>
    \A i \in Ran :
      LET path == all_files[i]
      IN  /\ path \notin opened <=>
               path.ext \in {".exe", ".bat", ".cmd", ".js", ".vbs"}
          /\ (path.ext = ".EXE" /\ future[i] = "finished") =>
               /\ path \in opened /\ path \in scanned
               /\ outcome[i] # Absent
               /\ outcome[i][1].patterns = search_patterns(rules, disk[path].text)
               /\ outcome[i][1].patterns # <<>>

\* a batch that is over in which tool.exe was blocked and tool.EXE was read
\* and analysed
C24_Witness ==
  /\ program = "batch" /\ main_pc = "done"
  /\ \E i, j \in 1..N :
       /\ all_files[i] = Path("tool", ".exe")
       /\ all_files[j] = Path("tool", ".EXE")
       /\ all_files[i] \notin opened /\ all_files[j] \in opened
       /\ outcome[i] = Absent /\ outcome[j] # Absent

(***************************************************************************)
(* Properties of the order of the results.                                 *)
(***************************************************************************)
\* C25: when no pipeline raises, the batch returns its results in input
\* order: the i-th result is the result of the i-th path, in whatever order
\* the workers started and finished.
C25_ResultsInInputOrder ==
  (program = "batch" /\ main_pc = "done") =>
    /\ results # Absent
    /\ Len(results[1]) = N
    /\ \A i \in 1..N : results[1][i] = Alone(i)

\* a batch that is over whose results are two summaries that differ and a
\* None, so that another order would show
C25_Witness ==
  /\ program = "batch" /\ main_pc = "done" /\ N >= 3
  /\ \E i, j, k \in 1..N :
       /\ i < j
       /\ results[1][i] # Absent /\ results[1][j] # Absent
       /\ results[1][i] # results[1][j]
       /\ results[1][k] = Absent

====
